---------------------------- MODULE Spec2Model ----------------------------
(***************************************************************************)
(* Trade detection and mirroring of Samad191/poly-copy.                    *)
(*                                                                         *)
(* src/unnamed/part_000 holds the activity poller and the order mirror in  *)
(* two builds: lines 1-402 (build "A": mirrorTrade validates its input,    *)
(* rounds, posts IOC and looks at result.success) and lines 404-686 (build *)
(* "B": no validation, no rounding, posts GTC).  pollForTrades is the same *)
(* in both.  src/websocket-listener.js holds the event-stream handler, the *)
(* trade classifier, the transport with its reconnection timer and SIGINT  *)
(* handlers, and the outcome resolver getOutcomeFromTokenId.               *)
(*                                                                         *)
(* JavaScript runs one callback at a time: the part of pollForTrades after *)
(* its await runs without interruption, so while pc = "loop" the loop step *)
(* is the only step that can be taken.                                     *)
(***************************************************************************)
EXTENDS Integers, Sequences, FiniteSets, TLC

VARIABLES
    variant,        \* which build of mirrorTrade runs: "A" or "B"
    seenTrades,     \* the Set seenTrades, in insertion order (part_000:33)
    lastTimestamp,  \* the watermark (part_000:36)
    fetching,       \* pollForTrades invocations waiting for their fetch
    pc,             \* "idle", or "loop" inside the synchronous part of a cycle
    trades,         \* the sorted trades of the running cycle still to examine
    first,          \* trades[0].timestamp of the running cycle, NoTime if none
    mirrors,        \* the mirrorTrade invocations so far, one task each
    wsLogged,       \* what the event-stream handler has logged
    \* history variables, read by the properties only
    mirrorCalls,    \* trade id -> times logTrade called mirrorTrade for it
    lastStep,       \* what the last loop iteration did with its record, or
                    \* that the cycle just finished had no fetch result
    cycle,          \* the running cycle: newest TRADE timestamp of the raw
                    \* response, ledger size at its start, trades fetched,
                    \* records filtered out, whether the fetch failed
    compactedAt,    \* ledger size when compaction last ran, 0 if never
    \* the listener script (websocket-listener.js)
    sockets,        \* the transports made so far, one per startListener call
    timers,         \* the pending setTimeout(startListener, 5000) timers
    sigint,         \* the SIGINT handlers registered, in registration order
    process,        \* "running" or "exited"
    tokenOutcomeCache,  \* the Map tokenOutcomeCache (websocket-listener.js:35)
    lookups         \* the getOutcomeFromTokenId invocations so far

listenerVars == <<sockets, timers, sigint, process>>

resolverVars == <<tokenOutcomeCache, lookups>>

vars == <<variant, seenTrades, lastTimestamp, fetching, pc, trades, first,
          mirrors, wsLogged, mirrorCalls, lastStep, cycle, compactedAt,
          sockets, timers, sigint, process, tokenOutcomeCache, lookups>>

(***************************************************************************)
(* Bounds of the model                                                     *)
(***************************************************************************)
MaxResp == 2        \* records in one activity response
MaxFetching == 2    \* pollForTrades invocations whose fetch is outstanding
StartTime == 10     \* Math.floor(Date.now() / 1000) when the module loads
MaxLogged == 1      \* fills the event-stream handler logs
MaxMirrors == 1     \* direct mirrorTrade invocations in SpecMirror
MaxSockets == 3     \* startListener calls (the first and the reconnections)
MaxErrors == 2      \* 'error' events one transport emits
Step == 1000        \* milliseconds that pass in one Tick
MaxLookups == 2     \* getOutcomeFromTokenId invocations

(***************************************************************************)
(* Program constants                                                       *)
(***************************************************************************)
Capacity == 10000   \* seenTrades.size > 10000
EvictCount == 5000  \* entries.slice(0, 5000)
Tolerance == 5      \* trade.timestamp < lastTimestamp - 5
Backoff == 5000     \* setTimeout(startListener, 5000)

\* Stands for "no timestamp" (an empty trades array).
NoTime == 0 - 1

(***************************************************************************)
(* Values of a JSON field: undefined, a non-numeric string, or a number    *)
(* held in units of 0.0001.                                                *)
(***************************************************************************)
Undefined == [k |-> "undefined", n |-> 0]
NonNumeric == [k |-> "string", n |-> 0]
Num(n) == [k |-> "number", n |-> n]

\* JavaScript truthiness of a field value: !v is true for undefined and 0.
Truthy(v) == v.k = "string" \/ (v.k = "number" /\ v.n # 0)

\* Truthiness of a string-valued field ("undefined" stands for a missing one).
TruthyStr(s) == s # "undefined" /\ s # ""

(***************************************************************************)
(* The inputs: activity records                                            *)
(***************************************************************************)
\* Transaction hashes: 1 is the one of the oldest id in a full ledger, NewTx
\* are two that no ledger holds at the start.
NewTx == {Capacity + 1, Capacity + 2}
TxHashes == {1} \cup NewTx
Assets == {"123", "456"}
Timestamps == {StartTime - 6, StartTime - 5, StartTime + 2}
OtherTimestamps == {StartTime + 7}

MkRecord(tx, a, ts, ty) ==
    [transactionHash |-> tx, asset |-> a, timestamp |-> ts, type |-> ty,
     side |-> "BUY", size |-> Num(50000), price |-> Num(5000)]

ActivityRecords ==
    {MkRecord(tx, "123", ts, "TRADE") : tx \in NewTx, ts \in Timestamps}
    \cup {MkRecord(Capacity + 1, "456", StartTime + 2, "TRADE")}
    \cup {MkRecord(Capacity + 2, "456", ts, "REDEEM") : ts \in OtherTimestamps}

RECURSIVE SeqsUpTo(_, _)
SeqsUpTo(S, n) ==
    IF n = 0 THEN {<<>>}
    ELSE LET shorter == SeqsUpTo(S, n - 1)
         IN shorter \cup {Append(s, x) : s \in shorter, x \in S}

Responses == SeqsUpTo(ActivityRecords, MaxResp)

\* The records returned to a poller whose ledger is at its capacity: the
\* oldest id of the ledger and two new ones, all fresh.
FullRecords ==
    {MkRecord(tx, "123", StartTime + 2, "TRADE") : tx \in TxHashes}

FullResponses == SeqsUpTo(FullRecords, MaxResp)

\* The records returned to a poller whose ledger is at its capacity and
\* holds the id of a stale record: that stale record again, and a fresh one.
EvictedRecords ==
    {MkRecord(1, "123", StartTime - 6, "TRADE"),
     MkRecord(Capacity + 1, "123", StartTime + 2, "TRADE")}

EvictedResponses == SeqsUpTo(EvictedRecords, MaxResp)

\* The records returned while orders are followed to their end: two fresh
\* trades, and a fresh one that has no size.
OrderRecords ==
    {MkRecord(tx, "123", StartTime + 2, "TRADE") : tx \in NewTx}
    \cup {[MkRecord(Capacity + 1, "456", StartTime + 2, "TRADE") EXCEPT !.size = Undefined]}

OrderResponses == SeqsUpTo(OrderRecords, MaxResp)

(***************************************************************************)
(* pollForTrades and what it calls                                         *)
(***************************************************************************)
\* Mutant: the timestamp is part of the id.
tradeId_WithTimestamp(trade) == <<trade.transactionHash, trade.asset, trade.timestamp>>

\* const tradeId = `${trade.transactionHash}-${trade.asset}`
tradeId(trade) == <<trade.transactionHash, trade.asset>>

\* Mutant: the lookup uses the transaction hash alone as its key.
Has_ByHashOnly(s, id) == \E i \in 1..Len(s) : s[i] = <<id[1], "">>

\* seenTrades.has(id)
Has(s, id) == \E i \in 1..Len(s) : s[i] = id

\* Mutant: the id is not in the ledger when the iteration ends.
Add_Later(s, id) == s

\* seenTrades.add(id): a Set keeps insertion order and adds a member once.
Add(s, id) == IF Has(s, id) THEN s ELSE Append(s, id)

\* Mutant: every record of the response is kept.
FilterTrades_KeepsAll(activity) == activity

\* activity.filter(item => item.type === 'TRADE')
RECURSIVE FilterTrades(_)
FilterTrades(activity) ==
    IF activity = <<>> THEN <<>>
    ELSE IF Head(activity).type = "TRADE"
         THEN <<Head(activity)>> \o FilterTrades(Tail(activity))
         ELSE FilterTrades(Tail(activity))

\* Mutant: the comparator is a.timestamp - b.timestamp.
ComesAfter_Ascending(a, b) == a.timestamp - b.timestamp > 0

\* The comparator (a, b) => b.timestamp - a.timestamp: a goes after b when
\* the result is positive.
ComesAfter(a, b) == b.timestamp - a.timestamp > 0

\* Insert x into the sorted s behind every element it does not precede
\* (Array.prototype.sort is stable).
RECURSIVE InsertSorted(_, _)
InsertSorted(s, x) ==
    IF s = <<>> THEN <<x>>
    ELSE IF ComesAfter(Head(s), x)
         THEN <<x>> \o s
         ELSE <<Head(s)>> \o InsertSorted(Tail(s), x)

\* trades.sort((a, b) => b.timestamp - a.timestamp)
RECURSIVE SortTrades(_)
SortTrades(s) ==
    IF s = <<>> THEN <<>>
    ELSE InsertSorted(SortTrades(SubSeq(s, 1, Len(s) - 1)), s[Len(s)])

\* Mutant: no record is taken for stale.
IsStale_Never(trade, watermark) == FALSE

\* Mutant: the 5 second tolerance is left out.
IsStale_NoTolerance(trade, watermark) == trade.timestamp < watermark

\* trade.timestamp < lastTimestamp - 5
IsStale(trade, watermark) == trade.timestamp < watermark - Tolerance

\* Mutant: the watermark takes the newest timestamp without comparing.
NextWatermark_Unguarded(firstTs, watermark) ==
    IF firstTs # NoTime THEN firstTs ELSE watermark

\* if (trades.length > 0 && trades[0].timestamp > lastTimestamp) ...
NextWatermark(firstTs, watermark) ==
    IF firstTs # NoTime /\ firstTs > watermark THEN firstTs ELSE watermark

\* if (seenTrades.size > 10000) entries.slice(0, 5000).forEach(delete)
NeedsCompaction(s) == Len(s) > Capacity

\* Mutant: the deletions miss the ledger (nothing is removed).
Compact_RemovesNothing(s) == s

\* Mutant: the newest 5000 ids are removed instead of the oldest.
Compact_Newest(s) == SubSeq(s, 1, Len(s) - EvictCount)

Compact(s) == SubSeq(s, EvictCount + 1, Len(s))


(***************************************************************************)
(* mirrorTrade (part_000:101-163 in build A, 496-534 in build B)           *)
(***************************************************************************)
NaN == [k |-> "NaN", n |-> 0]

\* parseFloat of a field value
ParseFloat(v) == IF v.k = "number" THEN v ELSE NaN

\* Math.round(x * (10000 / unit)) / (10000 / unit) on a value held in units
\* of 0.0001: the nearest multiple of unit, a half rounding up.  (In binary
\* floating point some exact halves come out one unit lower, 0.5005 giving
\* 0.5; the values the model feeds in are not among them.)
RoundTo(v, unit) ==
    IF v.k = "number" THEN Num(((v.n + unit \div 2) \div unit) * unit) ELSE NaN

\* Math.max(0.01, Math.min(0.99, x)); NaN stays NaN.
Clamp(v) ==
    IF v.k # "number" THEN NaN
    ELSE Num(IF v.n < 100 THEN 100 ELSE IF v.n > 9900 THEN 9900 ELSE v.n)

\* if (!asset || !side || !size || !price) return null   (build A only)
MissingField(data) ==
    \/ ~TruthyStr(data.asset)
    \/ ~TruthyStr(data.side)
    \/ ~Truthy(data.size)
    \/ ~Truthy(data.price)

RejectsInput(v, data) == v = "A" /\ MissingField(data)

\* side === 'BUY' ? Side.BUY : Side.SELL
OrderSide(side) == IF side = "BUY" THEN "Side.BUY" ELSE "Side.SELL"

\* The orderParams handed to createOrder.
OrderParams(v, data) ==
    IF v = "A"
    THEN [tokenID |-> data.asset, side |-> OrderSide(data.side),
          size |-> RoundTo(ParseFloat(data.size), 100),
          price |-> Clamp(RoundTo(ParseFloat(data.price), 10))]
    ELSE [tokenID |-> data.asset, side |-> OrderSide(data.side),
          size |-> ParseFloat(data.size),
          price |-> ParseFloat(data.price)]

NoOrder == [tokenID |-> "", side |-> "", size |-> NaN, price |-> NaN]

\* mirrorTrade up to its first await: the task it leaves behind (clobClient
\* is the client setupClobClient made).  at is
\* "createOrder" while the createOrder call is outstanding, "postOrder"
\* while the postOrder call is, "returned" once mirrorTrade has returned.
MirrorTradeStart(v, data) ==
    IF RejectsInput(v, data)
    THEN [data |-> data, at |-> "returned", created |-> FALSE, posted |-> FALSE,
          order |-> NoOrder, result |-> "null", reported |-> "missing fields"]
    ELSE [data |-> data, at |-> "createOrder", created |-> TRUE, posted |-> FALSE,
          order |-> OrderParams(v, data), result |-> "pending", reported |-> "none"]

\* What build v logs for a postOrder response with the given success flag.
ReportFor(v, success) ==
    IF v = "A" THEN (IF success = "true" THEN "executed" ELSE "failed")
    ELSE "placed"

\* logTrade(trade) hands these four fields to mirrorTrade.
TradeDataOf(trade) ==
    [asset |-> trade.asset, side |-> trade.side, size |-> trade.size,
     price |-> trade.price]

(***************************************************************************)
(* The event-stream handler (websocket-listener.js)                        *)
(***************************************************************************)
\* An address is <<who, spelling>>; toLowerCase keeps who and lowers the
\* spelling.
ToLowerCase(addr) == <<addr[1], "lower">>

TARGET_ADDRESS == ToLowerCase(<<"target", "checksum">>)

ZERO_ASSET == "0"

\* Mutant: maker and taker are compared as spelled, without toLowerCase.
determineTradeType_CaseSensitive(trade) ==
    LET isMaker == trade.maker = TARGET_ADDRESS
        isTaker == trade.taker = TARGET_ADDRESS
    IN IF isMaker
       THEN (IF trade.makerAssetId = ZERO_ASSET THEN "BUY" ELSE "SELL")
       ELSE IF isTaker
            THEN (IF trade.takerAssetId = ZERO_ASSET THEN "SELL" ELSE "BUY")
            ELSE "UNKNOWN"

determineTradeType(trade) ==
    LET targetLower == ToLowerCase(TARGET_ADDRESS)
        isMaker == ToLowerCase(trade.maker) = targetLower
        isTaker == ToLowerCase(trade.taker) = targetLower
    IN IF isMaker
       THEN (IF trade.makerAssetId = ZERO_ASSET THEN "BUY" ELSE "SELL")
       ELSE IF isTaker
            THEN (IF trade.takerAssetId = ZERO_ASSET THEN "SELL" ELSE "BUY")
            ELSE "UNKNOWN"

\* const outcomeTokenId = isMaker ? ... : ...
OutcomeTokenId(trade) ==
    LET isMaker == ToLowerCase(trade.maker) = ToLowerCase(TARGET_ADDRESS)
    IN IF isMaker
       THEN (IF trade.makerAssetId # "0" THEN trade.makerAssetId ELSE trade.takerAssetId)
       ELSE (IF trade.takerAssetId # "0" THEN trade.takerAssetId ELSE trade.makerAssetId)

Addresses == {<<"target", "checksum">>, <<"target", "lower">>, <<"other", "checksum">>}
AssetIds == {"0", "123", "456"}

MkFill(tx, mk, tk, ma, ta) ==
    [txHash |-> tx, maker |-> mk, taker |-> tk, makerAssetId |-> ma, takerAssetId |-> ta]

\* Every fill the subscription can deliver, for the classifier's checks.
AllFills ==
    {MkFill(tx, mk, tk, ma, ta) :
        tx \in TxHashes, mk \in Addresses, tk \in Addresses,
        ma \in AssetIds, ta \in AssetIds}

\* The fills delivered while the poller runs: the target buys token 123 as
\* maker, and sells it as taker.
PipelineFills ==
    {MkFill(Capacity + 1, <<"target", "checksum">>, <<"other", "checksum">>, "0", "123"),
     MkFill(Capacity + 2, <<"other", "checksum">>, <<"target", "checksum">>, "0", "123")}

(***************************************************************************)
(* The listener's transport (websocket-listener.js:190-323)                *)
(***************************************************************************)
\* The four subscriptions startListener makes: each exchange contract, with
\* the target as maker and as taker.
Subscriptions == {"CTF_EXCHANGE", "NEG_RISK_CTF_EXCHANGE"} \X {"maker", "taker"}

\* new ethers.providers.WebSocketProvider(WSS_URL) with the subscriptions on
\* it.  cause is the transport whose 'close' event led to this one (0 for the
\* first) and waited the milliseconds between that event and this call.
NewSocket(cause, waited) ==
    [state |-> "connecting", subs |-> Subscriptions, cause |-> cause,
     waited |-> waited, errors |-> 0]

\* Mutant: the reconnection runs as soon as it is scheduled.
Due_AtOnce(t) == TRUE

\* A timer runs its callback when its delay has passed.
Due(t) == t.remaining = 0

\* provider._websocket.close(): a transport that is connecting or open
\* starts closing, one that is closed stays so.
CloseCalled(state) == IF state \in {"connecting", "open"} THEN "closing" ELSE state

(***************************************************************************)
(* getOutcomeFromTokenId (websocket-listener.js:42-113)                    *)
(***************************************************************************)
TokenIds == {"123", "456"}
Labels == {"Yes", "No"}

\* parseInt(tokenId)
TokenNumber(tokenId) == IF tokenId = "123" THEN 123 ELSE 456

\* A market body: its tokens list and its outcomes array.
NoBody == [tokens |-> <<>>, outcomes |-> <<>>]

TokenList ==
    <<[tokenId |-> "456", outcome |-> "No"], [tokenId |-> "123", outcome |-> "Yes"]>>

MarketBodies ==
    {[tokens |-> tk, outcomes |-> oc] :
        tk \in {<<>>, TokenList}, oc \in {<<>>, <<"Yes", "No">>}}

\* What an endpoint answers: the fetch or json() throws, the status is not
\* ok, the body names an outcome (token and book endpoints), the body names
\* a market only (token endpoint), the body has nothing of use, or it is a
\* market body (market endpoint).
Answers ==
    {[kind |-> k, label |-> "null", body |-> NoBody] :
        k \in {"throws", "not ok", "market", "nothing"}}
    \cup {[kind |-> "outcome", label |-> l, body |-> NoBody] : l \in Labels}
    \cup {[kind |-> "body", label |-> "null", body |-> b] : b \in MarketBodies}

\* The answers the endpoint of a stage can give.
Fits(stage, answer) ==
    \/ answer.kind \in {"throws", "not ok"}
    \/ stage = "token" /\ answer.kind \in {"outcome", "market", "nothing"}
    \/ stage = "market" /\ answer.kind = "body"
    \/ stage = "book" /\ answer.kind \in {"outcome", "nothing"}

\* marketData.tokens.find(t => t.tokenId === tokenId)?.outcome
RECURSIVE FindOutcome(_, _)
FindOutcome(tokens, tokenId) ==
    IF tokens = <<>> THEN "null"
    ELSE IF Head(tokens).tokenId = tokenId THEN Head(tokens).outcome
    ELSE FindOutcome(Tail(tokens), tokenId)

\* The label the market stage takes from a body: the outcome of the entry
\* of the tokens list with this token id, else the entry of the outcomes
\* array at index parseInt(tokenId) % 2, else none.
MarketLabel(body, tokenId) ==
    LET outcomeIndex == TokenNumber(tokenId) % 2
    IN IF FindOutcome(body.tokens, tokenId) \in Labels
       THEN FindOutcome(body.tokens, tokenId)
       ELSE IF Len(body.outcomes) > outcomeIndex
            THEN body.outcomes[outcomeIndex + 1]
            ELSE "null"

\* tokenOutcomeCache.has(tokenId)
CacheHas(cache, tokenId) == cache[tokenId] # "absent"

\* Mutant: the result is stored whether it is a label or null.
Remember_Misses(cache, tokenId, result) == [cache EXCEPT ![tokenId] = result]

\* tokenOutcomeCache.set(tokenId, outcome) goes before each return of an
\* outcome, and before no return of null.
Remember(cache, tokenId, result) ==
    IF result \in Labels THEN [cache EXCEPT ![tokenId] = result] ELSE cache

\* The call after the endpoint it waits for has answered.
AfterAnswer(call, answer) ==
    LET return(result) ==
            [call EXCEPT !.at = "returned", !.result = result,
                         !.via = IF result \in Labels THEN call.at ELSE "none"]
        fetch(stage) ==
            [call EXCEPT !.at = stage, !.queries = @ + 1,
                         !.path = Append(@, stage)]
    IN IF answer.kind = "throws" THEN return("null")
       ELSE IF answer.kind = "outcome" THEN return(answer.label)
       ELSE IF answer.kind = "body" /\ MarketLabel(answer.body, call.tokenId) \in Labels
            THEN [return(MarketLabel(answer.body, call.tokenId))
                     EXCEPT !.body = answer.body]
       ELSE IF call.at = "book" THEN return("null")
       ELSE IF call.at = "token" /\ answer.kind = "market"
            THEN [fetch("market") EXCEPT !.ref = TRUE]
       ELSE fetch("book")

\* getOutcomeFromTokenId up to its first await.
\* (Read by the properties only: cached is the cache entry found at the
\* call, path the endpoints queried, ref whether the token endpoint named a
\* market, via the stage that gave the label, body the market body it came
\* from, missesBefore the earlier calls for the token id that returned null.)
GetOutcomeStart(cache, tokenId, missesBefore) ==
    IF CacheHas(cache, tokenId)
    THEN [tokenId |-> tokenId, at |-> "returned", result |-> cache[tokenId],
          queries |-> 0, missesBefore |-> missesBefore,
          cached |-> cache[tokenId], path |-> <<>>, ref |-> FALSE,
          via |-> "cache", body |-> NoBody]
    ELSE [tokenId |-> tokenId, at |-> "token", result |-> "pending",
          queries |-> 1, missesBefore |-> missesBefore,
          cached |-> cache[tokenId], path |-> <<"token">>, ref |-> FALSE,
          via |-> "none", body |-> NoBody]

(***************************************************************************)
(* State                                                                   *)
(***************************************************************************)
TradeIds == {<<tx, a>> : tx \in TxHashes, a \in Assets}

NoStep == [id |-> <<0, "">>, timestamp |-> NoTime, watermark |-> NoTime, did |-> "none"]

NoCycle == [newest |-> NoTime, size |-> 0, count |-> 0, dropped |-> 0, failed |-> FALSE]

\* The ids of n stale records admitted by earlier cycles, oldest first.
Backlog(n) == [i \in 1..n |-> <<i, "123">>]

BacklogSizes == {Capacity}

InitIdle ==
    /\ lastTimestamp = StartTime
    /\ pc = "idle"
    /\ trades = <<>>
    /\ first = NoTime
    /\ mirrors = <<>>
    /\ wsLogged = <<>>
    /\ mirrorCalls = [id \in TradeIds |-> 0]
    /\ lastStep = NoStep
    /\ cycle = NoCycle
    /\ compactedAt = 0
    /\ sockets = <<NewSocket(0, 0)>>
    /\ timers = {}
    /\ sigint = <<1>>
    /\ process = "running"
    /\ tokenOutcomeCache = [t \in TokenIds |-> "absent"]
    /\ lookups = <<>>

InitRest ==
    /\ fetching = 0
    /\ InitIdle

\* The state when the module has loaded.  pollForTrades is the same in both
\* builds; the poller runs build A's mirrorTrade.
Init ==
    /\ variant = "A"
    /\ seenTrades = <<>>
    /\ InitRest

\* The same, for either build of mirrorTrade.
InitMirror ==
    /\ variant \in {"A", "B"}
    /\ seenTrades = <<>>
    /\ InitRest

\* The state after earlier cycles have filled the ledger with stale records
\* (each was marked seen and not mirrored, and none moved the watermark).
InitBacklog ==
    /\ variant = "A"
    /\ seenTrades \in {Backlog(n) : n \in BacklogSizes}
    /\ InitRest

\* The state when the initial call of pollForTrades and the ticks after it
\* all wait for their fetch: every cycle that follows belongs to an
\* invocation that began before any other completed.
InitOverlap ==
    /\ variant = "A"
    /\ seenTrades = <<>>
    /\ fetching = MaxFetching
    /\ InitIdle

\* The newest TRADE timestamp of a raw response, NoTime when it has none.
NewestTrade(resp) ==
    LET ts == {resp[i].timestamp : i \in {j \in 1..Len(resp) : resp[j].type = "TRADE"}}
    IN IF ts = {} THEN NoTime ELSE CHOOSE t \in ts : \A u \in ts : u <= t

(***************************************************************************)
(* Actions of the poller                                                   *)
(***************************************************************************)
\* startPolling's initial call, or a setInterval tick: pollForTrades runs up
\* to its await of fetchTargetActivity.
PollStart ==
    /\ pc = "idle"
    /\ fetching < MaxFetching
    /\ fetching' = fetching + 1
    /\ UNCHANGED <<variant, seenTrades, lastTimestamp, pc, trades, first, mirrors,
                   wsLogged, mirrorCalls, lastStep, cycle, compactedAt>>
    /\ UNCHANGED <<listenerVars, resolverVars>>

\* The cycle's trades are in hand: sort them and enter the loop.
BeginCycle(fetched, newest, dropped, failed) ==
    /\ pc = "idle"
    /\ fetching > 0
    /\ fetching' = fetching - 1
    /\ trades' = SortTrades(fetched)
    /\ first' = IF trades' = <<>> THEN NoTime ELSE trades'[1].timestamp
    /\ pc' = "loop"
    /\ lastStep' = NoStep
    /\ cycle' = [newest |-> newest, size |-> Len(seenTrades), count |-> Len(fetched),
                 dropped |-> dropped, failed |-> failed]
    /\ UNCHANGED <<variant, seenTrades, lastTimestamp, mirrors, wsLogged,
                   mirrorCalls, compactedAt>>
    /\ UNCHANGED <<listenerVars, resolverVars>>

\* fetchTargetActivity resolves with the TRADE records of the response.
FetchReturns(resp) ==
    BeginCycle(FilterTrades(resp), NewestTrade(resp),
               Len(resp) - Len(FilterTrades(resp)), FALSE)

\* Mutant: a failed fetch hands the loop a fresh trade.
FetchFails_HandsOverTrade ==
    BeginCycle(<<MkRecord(Capacity + 1, "123", StartTime + 2, "TRADE")>>,
               StartTime + 2, 0, TRUE)

\* response.ok is false, or fetch or json() throws: fetchTargetActivity
\* resolves with [].
FetchFails == BeginCycle(<<>>, NoTime, 0, TRUE)

\* One iteration of for (const trade of trades).
LoopStep ==
    /\ pc = "loop"
    /\ trades # <<>>
    /\ LET trade == Head(trades)
           id == tradeId(trade)
           step(did) == [id |-> id, timestamp |-> trade.timestamp,
                         watermark |-> lastTimestamp, did |-> did]
           seen == Has(seenTrades, id)
       IN \/ /\ seen
             /\ lastStep' = step("skipped")
             /\ UNCHANGED <<seenTrades, mirrors, mirrorCalls>>
          \/ /\ ~seen
             /\ IsStale(trade, lastTimestamp)
             /\ seenTrades' = Add(seenTrades, id)
             /\ lastStep' = step("stale")
             /\ UNCHANGED <<mirrors, mirrorCalls>>
          \/ /\ ~seen
             /\ ~IsStale(trade, lastTimestamp)
             /\ seenTrades' = Add(seenTrades, id)
             /\ mirrors' = Append(mirrors, MirrorTradeStart(variant, TradeDataOf(trade)))
             /\ mirrorCalls' = [mirrorCalls EXCEPT ![id] = @ + 1]
             /\ lastStep' = step("mirrored")
    /\ trades' = Tail(trades)
    /\ UNCHANGED <<variant, lastTimestamp, fetching, pc, first, wsLogged, cycle,
                   compactedAt>>
    /\ UNCHANGED <<listenerVars, resolverVars>>

\* After the loop: move the watermark, then compact the ledger.
PollFinish ==
    /\ pc = "loop"
    /\ trades = <<>>
    /\ lastTimestamp' = NextWatermark(first, lastTimestamp)
    /\ IF NeedsCompaction(seenTrades)
       THEN /\ seenTrades' = Compact(seenTrades)
            /\ compactedAt' = Len(seenTrades)
       ELSE UNCHANGED <<seenTrades, compactedAt>>
    /\ pc' = "idle"
    /\ first' = NoTime
    /\ lastStep' = IF cycle.failed THEN [NoStep EXCEPT !.did = "fetch failed"] ELSE NoStep
    /\ cycle' = NoCycle
    /\ UNCHANGED <<variant, fetching, trades, mirrors, wsLogged, mirrorCalls>>
    /\ UNCHANGED <<listenerVars, resolverVars>>

NextPoll ==
    \/ PollStart
    \/ \E resp \in Responses : FetchReturns(resp)
    \/ FetchFails
    \/ LoopStep
    \/ PollFinish

(***************************************************************************)
(* Action of the event-stream handler                                      *)
(***************************************************************************)
\* The callback handleOrderFilled returns: classify, pick the outcome token,
\* log.  It reads and writes no state of the poller (the listener is a
\* script of its own: it has no seenTrades and never calls mirrorTrade), so
\* taking it between two poller steps covers every interleaving.  The other
\* fields of the event (orderHash, amounts, fee, blockNumber) are only
\* printed.
OnOrderFilled(fill) ==
    /\ pc = "idle"
    /\ Len(wsLogged) < MaxLogged
    /\ wsLogged' = Append(wsLogged,
                          [fill |-> fill, type |-> determineTradeType(fill),
                           tokenId |-> OutcomeTokenId(fill)])
    /\ UNCHANGED <<variant, seenTrades, lastTimestamp, fetching, pc, trades, first,
                   mirrors, mirrorCalls, lastStep, cycle, compactedAt>>
    /\ UNCHANGED <<listenerVars, resolverVars>>

(***************************************************************************)
(* Actions of mirrorTrade after its first await                            *)
(***************************************************************************)
MirrorInputs ==
    {[asset |-> a, side |-> sd, size |-> sz, price |-> pr] :
        a \in {"123", "undefined"},
        sd \in {"BUY", "SELL", "HOLD", "UNKNOWN", "undefined"},
        sz \in {Undefined, NonNumeric, Num(0), Num(12345)},
        pr \in {Undefined, NonNumeric, Num(4567), Num(12000), Num(0 - 100)}}

\* mirrorTrade called on its own.
MirrorCall(data) ==
    /\ pc = "idle"
    /\ Len(mirrors) < MaxMirrors
    /\ mirrors' = Append(mirrors, MirrorTradeStart(variant, data))
    /\ UNCHANGED <<variant, seenTrades, lastTimestamp, fetching, pc, trades, first,
                   wsLogged, mirrorCalls, lastStep, cycle, compactedAt>>
    /\ UNCHANGED <<listenerVars, resolverVars>>

MirrorFrame ==
    UNCHANGED <<variant, seenTrades, lastTimestamp, fetching, pc, trades, first,
                wsLogged, mirrorCalls, lastStep, cycle, compactedAt,
                listenerVars, resolverVars>>

\* createOrder resolves: mirrorTrade goes on to call postOrder.
CreateOrderReturns(i) ==
    /\ pc = "idle"
    /\ mirrors[i].at = "createOrder"
    /\ mirrors' = [mirrors EXCEPT ![i].at = "postOrder", ![i].posted = TRUE]
    /\ MirrorFrame

\* Mutant: the failure of createOrder is logged and the order is posted.
CreateOrderThrows_PostsAnyway(i) ==
    /\ pc = "idle"
    /\ mirrors[i].at = "createOrder"
    /\ mirrors' = [mirrors EXCEPT ![i].at = "postOrder", ![i].posted = TRUE,
                                  ![i].reported = "error"]
    /\ MirrorFrame

\* createOrder rejects: the catch block returns null.
CreateOrderThrows(i) ==
    /\ pc = "idle"
    /\ mirrors[i].at = "createOrder"
    /\ mirrors' = [mirrors EXCEPT ![i].at = "returned", ![i].result = "null",
                                  ![i].reported = "error"]
    /\ MirrorFrame

\* postOrder resolves with a response whose success flag is "true", "false"
\* or "absent": mirrorTrade logs and returns the response.
PostOrderReturns(i, success) ==
    /\ pc = "idle"
    /\ mirrors[i].at = "postOrder"
    /\ mirrors' = [mirrors EXCEPT ![i].at = "returned", ![i].result = success,
                                  ![i].reported = ReportFor(variant, success)]
    /\ MirrorFrame

\* Mutant: the catch block takes the newest id out of the ledger.
PostOrderThrows_Unmarks(i) ==
    /\ pc = "idle"
    /\ mirrors[i].at = "postOrder"
    /\ mirrors' = [mirrors EXCEPT ![i].at = "returned", ![i].result = "null",
                                  ![i].reported = "error"]
    /\ seenTrades' = SubSeq(seenTrades, 1, Len(seenTrades) - 1)
    /\ UNCHANGED <<variant, lastTimestamp, fetching, pc, trades, first,
                   wsLogged, mirrorCalls, lastStep, cycle, compactedAt,
                   listenerVars, resolverVars>>

\* postOrder rejects: the catch block returns null.
PostOrderThrows(i) ==
    /\ pc = "idle"
    /\ mirrors[i].at = "postOrder"
    /\ mirrors' = [mirrors EXCEPT ![i].at = "returned", ![i].result = "null",
                                  ![i].reported = "error"]
    /\ MirrorFrame

NextMirror ==
    \/ \E data \in MirrorInputs : MirrorCall(data)
    \/ \E i \in 1..Len(mirrors) : CreateOrderReturns(i)
    \/ \E i \in 1..Len(mirrors) : CreateOrderThrows(i)
    \/ \E i \in 1..Len(mirrors), success \in {"true", "false", "absent"} :
          PostOrderReturns(i, success)
    \/ \E i \in 1..Len(mirrors) : PostOrderThrows(i)

(***************************************************************************)
(* Actions of the listener's transport                                     *)
(***************************************************************************)
ListenerFrame ==
    UNCHANGED <<variant, seenTrades, lastTimestamp, fetching, pc, trades, first,
                mirrors, wsLogged, mirrorCalls, lastStep, cycle, compactedAt,
                resolverVars>>

\* startListener: a new transport with its subscriptions, and one more
\* SIGINT handler, which closes that transport.
StartListener(cause, waited) ==
    /\ sockets' = Append(sockets, NewSocket(cause, waited))
    /\ sigint' = Append(sigint, Len(sockets) + 1)

\* 'open': logged.
SocketOpens(i) ==
    /\ process = "running"
    /\ sockets[i].state = "connecting"
    /\ sockets' = [sockets EXCEPT ![i].state = "open"]
    /\ UNCHANGED <<timers, sigint, process>>
    /\ ListenerFrame

\* 'error': logged.
SocketErrors(i) ==
    /\ process = "running"
    /\ sockets[i].state \in {"connecting", "open"}
    /\ sockets[i].errors < MaxErrors
    /\ sockets' = [sockets EXCEPT ![i].errors = @ + 1]
    /\ UNCHANGED <<timers, sigint, process>>
    /\ ListenerFrame

\* 'close': setTimeout(startListener, 5000).
SocketCloses(i) ==
    /\ process = "running"
    /\ sockets[i].state \in {"connecting", "open"}
    /\ Len(sockets) < MaxSockets
    /\ sockets' = [sockets EXCEPT ![i].state = "closed"]
    /\ timers' = timers \cup {[cause |-> i, remaining |-> Backoff, elapsed |-> 0]}
    /\ UNCHANGED <<sigint, process>>
    /\ ListenerFrame

\* Time passes, while no timer is due.
Tick ==
    /\ process = "running"
    /\ timers # {}
    /\ \A t \in timers : ~Due(t)
    /\ timers' = {[t EXCEPT !.remaining = IF @ > Step THEN @ - Step ELSE 0,
                            !.elapsed = @ + Step] : t \in timers}
    /\ UNCHANGED <<sockets, sigint, process>>
    /\ ListenerFrame

\* A due timer calls startListener.
TimerFires(t) ==
    /\ process = "running"
    /\ t \in timers
    /\ Due(t)
    /\ timers' = timers \ {t}
    /\ StartListener(t.cause, t.elapsed)
    /\ UNCHANGED process
    /\ ListenerFrame

\* SIGINT: the handlers run in the order they were registered; the first
\* one closes the transport of its own startListener call and calls
\* process.exit(0), which ends the process before any other handler runs.
Sigint ==
    /\ process = "running"
    /\ sockets' = [sockets EXCEPT ![sigint[1]].state = CloseCalled(@)]
    /\ process' = "exited"
    /\ UNCHANGED <<timers, sigint>>
    /\ ListenerFrame

NextReconnect ==
    \/ \E i \in 1..Len(sockets) : SocketOpens(i)
    \/ \E i \in 1..Len(sockets) : SocketErrors(i)
    \/ \E i \in 1..Len(sockets) : SocketCloses(i)
    \/ Tick
    \/ \E t \in timers : TimerFires(t)

NextListener ==
    \/ NextReconnect
    \/ Sigint

(***************************************************************************)
(* Actions of getOutcomeFromTokenId                                        *)
(***************************************************************************)
ResolverFrame ==
    UNCHANGED <<variant, seenTrades, lastTimestamp, fetching, pc, trades, first,
                mirrors, wsLogged, mirrorCalls, lastStep, cycle, compactedAt,
                listenerVars>>

\* The number of calls for tokenId that have returned null.
Misses(tokenId) ==
    Cardinality({i \in 1..Len(lookups) :
        /\ lookups[i].tokenId = tokenId
        /\ lookups[i].at = "returned"
        /\ lookups[i].result = "null"})

\* getOutcomeFromTokenId(tokenId) is called.
GetOutcome(tokenId) ==
    /\ Len(lookups) < MaxLookups
    /\ lookups' = Append(lookups,
                         GetOutcomeStart(tokenOutcomeCache, tokenId, Misses(tokenId)))
    /\ UNCHANGED tokenOutcomeCache
    /\ ResolverFrame

\* The endpoint call i waits for answers.
EndpointAnswers(i, answer) ==
    /\ lookups[i].at # "returned"
    /\ Fits(lookups[i].at, answer)
    /\ LET call == AfterAnswer(lookups[i], answer)
       IN /\ lookups' = [lookups EXCEPT ![i] = call]
          /\ tokenOutcomeCache' =
                IF call.at = "returned"
                THEN Remember(tokenOutcomeCache, call.tokenId, call.result)
                ELSE tokenOutcomeCache
    /\ ResolverFrame

NextResolver ==
    \/ \E tokenId \in TokenIds : GetOutcome(tokenId)
    \/ \E i \in 1..Len(lookups), answer \in Answers : EndpointAnswers(i, answer)

\* The poller with mirrorTrade followed to its end.
NextOrders ==
    \/ PollStart
    \/ \E resp \in OrderResponses : FetchReturns(resp)
    \/ FetchFails
    \/ LoopStep
    \/ PollFinish
    \/ \E i \in 1..Len(mirrors) : CreateOrderReturns(i)
    \/ \E i \in 1..Len(mirrors) : CreateOrderThrows(i)
    \/ \E i \in 1..Len(mirrors), success \in {"true", "false", "absent"} :
          PostOrderReturns(i, success)
    \/ \E i \in 1..Len(mirrors) : PostOrderThrows(i)

NextFull ==
    \/ PollStart
    \/ \E resp \in FullResponses : FetchReturns(resp)
    \/ FetchFails
    \/ LoopStep
    \/ PollFinish

\* The overlapping invocations resume one after another.
NextOverlap ==
    \/ \E resp \in Responses : FetchReturns(resp)
    \/ FetchFails
    \/ LoopStep
    \/ PollFinish

NextEvicted ==
    \/ PollStart
    \/ \E resp \in EvictedResponses : FetchReturns(resp)
    \/ FetchFails
    \/ LoopStep
    \/ PollFinish

NextWs == \E fill \in AllFills : OnOrderFilled(fill)

Next ==
    \/ NextPoll
    \/ \E fill \in PipelineFills : OnOrderFilled(fill)

(***************************************************************************)
(* Specifications                                                          *)
(***************************************************************************)
\* The poller and the event-stream handler, from a fresh start.
Spec == Init /\ [][Next]_vars

\* The poller with a ledger at its capacity.
SpecFull == InitBacklog /\ [][NextFull]_vars

\* mirrorTrade on its own, over its inputs.
SpecMirror == InitMirror /\ [][NextMirror]_vars

\* The event-stream handler on its own, over every fill.
SpecWs == Init /\ [][NextWs]_vars

\* The poller of either build, each mirrorTrade followed to its end.
SpecOrders == InitMirror /\ [][NextOrders]_vars

\* The listener's transport with the interrupt signal.
SpecListener == Init /\ [][NextListener]_vars

\* The listener's transport left to run: time passes and a due timer runs.
SpecReconnect ==
    /\ Init
    /\ [][NextReconnect]_vars
    /\ WF_vars(Tick)
    /\ WF_vars(\E t \in timers : TimerFires(t))

\* getOutcomeFromTokenId over the answers of its endpoints.
SpecResolver == Init /\ [][NextResolver]_vars

\* The poller's invocations all in flight at once.
SpecOverlap == InitOverlap /\ [][NextOverlap]_vars

\* The poller with a ledger at its capacity that is handed a stale record
\* of that ledger again.
SpecEvicted == InitBacklog /\ [][NextEvicted]_vars

(***************************************************************************)
(* Properties                                                              *)
(***************************************************************************)
\* id is among the ids of the ledger s.
Holds(s, id) == id \in {s[i] : i \in 1..Len(s)}

Occurrences(s, id) == Cardinality({i \in 1..Len(s) : s[i] = id})

Max(a, b) == IF a >= b THEN a ELSE b

\* The trade id the event-stream handler derived for its i-th fill.
LoggedId(i) == <<wsLogged[i].fill.txHash, wsLogged[i].tokenId>>

\* C1: while a trade id is in seenTrades, no step admits it again: it is not
\* added a second time and mirrorTrade is not invoked for it, whether it
\* comes again in the same response or in a later cycle.
C1_AdmittedAtMostOnce ==
    [][\A id \in TradeIds :
          Holds(seenTrades, id) =>
              /\ mirrorCalls'[id] = mirrorCalls[id]
              /\ Occurrences(seenTrades', id) <= 1]_vars

\* A record whose id was admitted and mirrored earlier has just been skipped.
C1_Witness ==
    /\ lastStep.did = "skipped"
    /\ mirrorCalls[lastStep.id] = 1
    /\ Occurrences(seenTrades, lastStep.id) = 1

\* C2: a fill that the event-stream handler has handled and that a finished
\* poll cycle has examined was handed to mirrorTrade exactly once.
C2_MirroredOnceAcrossFeeds ==
    \A i \in 1..Len(wsLogged) :
        (pc = "idle" /\ Holds(seenTrades, LoggedId(i))) => mirrorCalls[LoggedId(i)] = 1

\* C3: a mirrorTrade call whose side is neither BUY nor SELL calls neither
\* createOrder nor postOrder and returns the failure result.
C3_InvalidSideAborts ==
    \A i \in 1..Len(mirrors) :
        mirrors[i].data.side \notin {"BUY", "SELL"} =>
            /\ ~mirrors[i].created
            /\ ~mirrors[i].posted
            /\ mirrors[i].result = "null"

\* C4: a mirrorTrade call with a missing token id, side, size or price, or
\* with a size or price that is not a number, calls neither createOrder nor
\* postOrder and returns null.
C4_BadInputAborts ==
    \A i \in 1..Len(mirrors) :
        LET d == mirrors[i].data
        IN (\/ d.asset = "undefined"
            \/ d.side = "undefined"
            \/ d.size.k # "number"
            \/ d.price.k # "number") =>
               /\ ~mirrors[i].created
               /\ ~mirrors[i].posted
               /\ mirrors[i].result = "null"

\* C5: the loop iteration that examines a record not yet in seenTrades adds
\* its id; it leaves mirrorTrade alone when the timestamp is below
\* lastTimestamp - 5 and invokes it exactly once otherwise, lastTimestamp
\* being the watermark as it stands in that iteration.
C5_StaleMarkedFreshMirrored ==
    [][(pc = "loop" /\ trades # <<>> /\ ~Holds(seenTrades, tradeId(Head(trades)))) =>
          LET trade == Head(trades)
              id == tradeId(trade)
          IN /\ Occurrences(seenTrades', id) = 1
             /\ IF trade.timestamp < lastTimestamp - 5
                THEN mirrorCalls' = mirrorCalls /\ mirrors' = mirrors
                ELSE /\ mirrorCalls' = [mirrorCalls EXCEPT ![id] = @ + 1]
                     /\ Len(mirrors') = Len(mirrors) + 1
                     /\ mirrors'[Len(mirrors')].data = TradeDataOf(trade)]_vars

\* A record that was fresh under the start watermark has been suppressed as
\* stale under the advanced one, after another record was mirrored.
C5_Witness ==
    /\ lastStep.did = "stale"
    /\ lastStep.watermark = StartTime + 2
    /\ lastStep.timestamp = StartTime - 5
    /\ \E id \in TradeIds : mirrorCalls[id] = 1

\* C6: the type logged for every fill follows the rule table, the target
\* being recognised whatever the spelling of the address.
C6_RuleTable ==
    \A i \in 1..Len(wsLogged) :
        LET f == wsLogged[i].fill
            side == wsLogged[i].type
            isMaker == f.maker[1] = "target"
            isTaker == f.taker[1] = "target"
        IN /\ (isMaker /\ f.makerAssetId = "0") => side = "BUY"
           /\ (isMaker /\ f.makerAssetId # "0") => side = "SELL"
           /\ (isTaker /\ ~isMaker /\ f.takerAssetId = "0") => side = "SELL"
           /\ (isTaker /\ ~isMaker /\ f.takerAssetId # "0") => side = "BUY"
           /\ (~isMaker /\ ~isTaker) => side = "UNKNOWN"

\* The target, spelled in mixed case, took tokens as taker: a BUY.
C6_Witness ==
    \E i \in 1..Len(wsLogged) :
        /\ wsLogged[i].fill.taker = <<"target", "checksum">>
        /\ wsLogged[i].fill.maker[1] = "other"
        /\ wsLogged[i].fill.takerAssetId = "123"
        /\ wsLogged[i].type = "BUY"

\* C7: a fill whose two asset ids are both not the sentinel is logged with
\* type UNKNOWN.
C7_BothNonSentinelUnknown ==
    \A i \in 1..Len(wsLogged) :
        (wsLogged[i].fill.makerAssetId # "0" /\ wsLogged[i].fill.takerAssetId # "0")
            => wsLogged[i].type = "UNKNOWN"

\* C8 as stated: seenTrades never holds more than 10000 ids.
C8_NeverExceedsCapacity == Len(seenTrades) <= 10000

\* C8 amended: seenTrades holds at most 10000 ids whenever no cycle is in
\* its loop; inside a cycle it holds at most the ids it held at the start of
\* the cycle and one more for each record examined so far.
C8_BoundedBetweenCycles ==
    /\ pc = "idle" => Len(seenTrades) <= 10000
    /\ pc = "loop" =>
          /\ cycle.size <= 10000
          /\ Len(seenTrades) <= cycle.size + (cycle.count - Len(trades))

\* A cycle took the ledger to 10001 ids and its compaction step has run.
C8_Witness ==
    /\ pc = "idle"
    /\ compactedAt = Capacity + 1
    /\ Len(seenTrades) <= Capacity

\* C9 as stated: compaction removes the oldest half of the ids, whatever the
\* size it runs at.
C9_EvictsOldestHalf ==
    [][Len(seenTrades') < Len(seenTrades) =>
          /\ Len(seenTrades') = Len(seenTrades) - (Len(seenTrades) \div 2)
          /\ \A i \in 1..Len(seenTrades') :
                seenTrades'[i] = seenTrades[i + (Len(seenTrades) \div 2)]]_vars

\* C9 amended: a cycle that ends with more than 10000 ids removes exactly
\* the 5000 oldest ones and keeps the others in their order (10001 ids leave
\* 5001); no other step removes an id.
C9_EvictsOldest5000 ==
    [][/\ (pc = "loop" /\ pc' = "idle" /\ Len(seenTrades) > 10000) =>
              Len(seenTrades') = Len(seenTrades) - 5000
       /\ Len(seenTrades') < Len(seenTrades) =>
              /\ pc = "loop" /\ pc' = "idle"
              /\ Len(seenTrades) > 10000
              /\ Len(seenTrades') = Len(seenTrades) - 5000
              /\ Len(seenTrades) = 10001 => Len(seenTrades') = 5001
              /\ \A i \in 1..Len(seenTrades') :
                    seenTrades'[i] = seenTrades[i + 5000]]_vars

\* Compaction has run at 10002 ids and left 5002.
C9_Witness ==
    /\ compactedAt = Capacity + 2
    /\ Len(seenTrades) = 5002

\* C10: lastTimestamp never decreases; the step that ends a cycle sets it
\* to the larger of its value and the newest TRADE timestamp of the cycle's
\* response, and no other step changes it.
C10_WatermarkAdvances ==
    [][/\ lastTimestamp' >= lastTimestamp
       /\ IF pc = "loop" /\ pc' = "idle"
          THEN lastTimestamp' = Max(lastTimestamp, cycle.newest)
          ELSE lastTimestamp' = lastTimestamp]_vars

\* A cycle has ended and advanced the watermark, and a trade older than the
\* window was marked seen without being mirrored.
C10_Witness ==
    /\ pc = "idle"
    /\ lastTimestamp = StartTime + 2
    /\ Holds(seenTrades, <<Capacity + 2, "123">>)
    /\ mirrorCalls[<<Capacity + 2, "123">>] = 0

\* The multiples of unit nearest to x (two of them when x lies half way).
Nearest(x, unit) ==
    LET lo == (x \div unit) * unit
    IN IF 2 * (x - lo) < unit THEN {lo}
       ELSE IF 2 * (x - lo) > unit THEN {lo + unit}
       ELSE {lo, lo + unit}

\* C11: for a numeric price and size, the order handed to createOrder has
\* the price rounded to the nearest 0.001 and then clamped to [0.01, 0.99],
\* and the size rounded to the nearest 0.01; no order has a price outside
\* [0.01, 0.99].  Prices and sizes are in units of 0.0001.
C11_OrderNormalized ==
    \A i \in 1..Len(mirrors) :
        LET m == mirrors[i]
        IN (m.created /\ m.data.price.k = "number" /\ m.data.size.k = "number") =>
              /\ m.order.price.k = "number"
              /\ m.order.size.k = "number"
              /\ m.order.price.n >= 100
              /\ m.order.price.n <= 9900
              /\ \E r \in Nearest(m.data.price.n, 10) :
                    m.order.price.n =
                        (IF r < 100 THEN 100 ELSE IF r > 9900 THEN 9900 ELSE r)
              /\ m.order.size.n \in Nearest(m.data.size.n, 100)

\* C13: mirrorTrade reports an order as succeeded only when the postOrder
\* response carries a true success flag.
C13_SuccessNeedsTrueFlag ==
    \A i \in 1..Len(mirrors) :
        mirrors[i].reported \in {"executed", "placed"} => mirrors[i].result = "true"

\* C12: postOrder is called only once createOrder has returned for the same
\* order, without a failure; when createOrder or postOrder fails, mirrorTrade
\* returns null, calls nothing further, and the failure touches neither the
\* poller's state nor any other mirrorTrade call.
C12_FailuresContained ==
    [][\A i \in 1..Len(mirrors) :
          LET m == mirrors[i]
              n == mirrors'[i]
          IN /\ (n.posted /\ ~m.posted) =>
                    /\ m.created
                    /\ m.at = "createOrder"
                    /\ n.at = "postOrder"
                    /\ n.order = m.order
                    /\ n.reported = "none"
             /\ (n.reported = "error" /\ m.reported # "error") =>
                    /\ n.at = "returned"
                    /\ n.result = "null"
                    /\ n.posted = m.posted
                    /\ n.created = m.created
                    /\ \A j \in 1..Len(mirrors') : j # i => mirrors'[j] = mirrors[j]
                    /\ UNCHANGED <<seenTrades, lastTimestamp, fetching, pc, trades,
                                   first, mirrorCalls>>]_vars

\* The first order failed at createOrder and was never posted; a later cycle
\* has just mirrored another trade.
C12_Witness ==
    /\ Len(mirrors) = 2
    /\ mirrors[1].reported = "error"
    /\ mirrors[1].result = "null"
    /\ ~mirrors[1].posted
    /\ lastStep.did = "mirrored"
    /\ cycle.size = 1

\* C14: a cycle whose fetch failed changes nothing: it adds no id to
\* seenTrades, leaves lastTimestamp alone, invokes mirrorTrade for nothing
\* and ends with the poller idle again, free to run the next cycle.
C14_FailedFetchSkipsCycle ==
    [][/\ cycle'.failed =>
              UNCHANGED <<seenTrades, lastTimestamp, mirrors, mirrorCalls>>
       /\ cycle.failed =>
              /\ pc' = "idle"
              /\ fetching' = fetching
              /\ UNCHANGED <<seenTrades, lastTimestamp, mirrors, mirrorCalls>>]_vars

\* A cycle whose fetch failed has finished, after an earlier cycle admitted
\* a trade and advanced the watermark; another invocation is waiting for its
\* fetch.
C14_Witness ==
    /\ pc = "idle"
    /\ lastStep.did = "fetch failed"
    /\ seenTrades # <<>>
    /\ lastTimestamp = StartTime + 2
    /\ fetching > 0

\* C15: at most one pollForTrades invocation is in progress, counting the
\* ones whose fetch is outstanding and the one in its loop.
C15_TicksNeverOverlap == fetching + (IF pc = "loop" THEN 1 ELSE 0) <= 1

\* C16: every fill the event-stream handler has handled was offered to the
\* dedup ledger, so its trade id is in seenTrades.
C16_HandledFillsInLedger ==
    \A i \in 1..Len(wsLogged) : Holds(seenTrades, LoggedId(i))

\* C17: each transport that has closed has exactly one resubscription,
\* pending or made; a resubscription is made only for a closed transport,
\* 5000 ms or more after the closure, with all four subscriptions; 'error'
\* events start none and leave the process running; and a closed transport
\* is eventually resubscribed.
C17_ResubscribedAfterBackoff ==
    /\ [](/\ process = "running"
          /\ \A i \in 1..Len(sockets) :
                /\ Cardinality({j \in 1..Len(sockets) : sockets[j].cause = i})
                     + Cardinality({t \in timers : t.cause = i})
                       = (IF sockets[i].state = "closed" THEN 1 ELSE 0)
                /\ sockets[i].cause # 0 =>
                      /\ sockets[i].cause < i
                      /\ sockets[i].waited >= 5000
                      /\ Cardinality(sockets[i].subs) = 4)
    /\ \A i \in 1..MaxSockets :
          (Len(sockets) >= i /\ sockets[i].state = "closed")
              ~> (\E j \in 1..Len(sockets) : sockets[j].cause = i)

\* The first transport emitted an error and later closed, and so did the
\* second; the third was made for the closure of the second.
C17_Witness ==
    /\ Len(sockets) = 3
    /\ sockets[1].errors > 0
    /\ sockets[2].cause = 1
    /\ sockets[3].cause = 2
    /\ sockets[3].state = "open"

\* C18: once the interrupt signal has ended the process, every transport is
\* closed or closing, the one in use when the signal came included.
C18_InterruptClosesActive ==
    process = "exited" =>
        \A i \in 1..Len(sockets) : sockets[i].state \in {"closed", "closing"}

\* C19: a record whose type is not TRADE is never added to seenTrades, never
\* handed to mirrorTrade and never moves lastTimestamp (the records of other
\* types carry an id and a timestamp that no TRADE record carries).
C19_OnlyTradesReachPipeline ==
    /\ \A i \in 1..Len(trades) : trades[i].type = "TRADE"
    /\ \A r \in {a \in ActivityRecords : a.type # "TRADE"} :
          /\ ~Holds(seenTrades, <<r.transactionHash, r.asset>>)
          /\ mirrorCalls[<<r.transactionHash, r.asset>>] = 0
          /\ lastTimestamp # r.timestamp
          /\ first # r.timestamp

\* A response with a record of another type and a TRADE record has been
\* examined to its end, and the TRADE record was mirrored.
C19_Witness ==
    /\ pc = "loop"
    /\ trades = <<>>
    /\ cycle.dropped > 0
    /\ cycle.count > 0
    /\ lastStep.did = "mirrored"

\* C20: a getOutcomeFromTokenId call returns a label or null; a return of
\* null leaves the cache as it was; and a call made while no earlier call
\* for its token id has returned a label queries the token endpoint.
C20_MissNotCached ==
    /\ [](\A i \in 1..Len(lookups) :
             lookups[i].at = "returned" => lookups[i].result \in Labels \cup {"null"})
    /\ [][/\ \A i \in 1..Len(lookups) :
                (lookups[i].at # "returned" /\ lookups'[i].at = "returned"
                    /\ lookups'[i].result = "null")
                  => tokenOutcomeCache' = tokenOutcomeCache
          /\ Len(lookups') > Len(lookups) =>
                LET call == lookups'[Len(lookups')]
                IN (\A j \in 1..Len(lookups) :
                       lookups[j].tokenId = call.tokenId => lookups[j].result \notin Labels)
                     => call.at = "token" /\ call.queries = 1]_vars

\* A call went through the three endpoints and returned null; a later call
\* for the same token id queried again and returned a label.
C20_Witness ==
    /\ Len(lookups) = 2
    /\ lookups[1].result = "null"
    /\ lookups[1].queries = 3
    /\ lookups[2].tokenId = lookups[1].tokenId
    /\ lookups[2].missesBefore = 1
    /\ lookups[2].queries = 1
    /\ lookups[2].result \in Labels

\* C21: once a label is stored for a token id, no step changes the entry.
C21_CacheWriteOnce ==
    [][\A t \in TokenIds :
          tokenOutcomeCache[t] # "absent" =>
              tokenOutcomeCache'[t] = tokenOutcomeCache[t]]_vars

\* C22: a call that found its token id in the cache queried nothing and
\* returned the cached label; the endpoints are queried in the order token,
\* market, book, the market endpoint only after the token endpoint named a
\* market; and a label that came from the market stage is the outcome of an
\* entry of the market's tokens list with the requested token id.
C22_StagesInOrder ==
    \A i \in 1..Len(lookups) :
        LET c == lookups[i]
        IN /\ c.cached # "absent" =>
                 c.queries = 0 /\ c.path = <<>> /\ c.result = c.cached
           /\ c.cached = "absent" =>
                 c.path \in {<<"token">>, <<"token", "market">>, <<"token", "book">>,
                             <<"token", "market", "book">>}
           /\ (\E k \in 1..Len(c.path) : c.path[k] = "market") => c.ref
           /\ (c.at = "returned" /\ c.via = "market") =>
                 \E k \in 1..Len(c.body.tokens) :
                     /\ c.body.tokens[k].tokenId = c.tokenId
                     /\ c.body.tokens[k].outcome = c.result

\* C23: within one cycle mirrorTrade is invoked newest first: when it is
\* invoked for a record, that record is the one at the head of the cycle's
\* list and no record still to be examined in the cycle has a larger
\* timestamp, whatever the order of the response.
C23_MirroredNewestFirst ==
    [][(pc = "loop" /\ Len(mirrors') > Len(mirrors)) =>
          /\ mirrors'[Len(mirrors')].data = TradeDataOf(Head(trades))
          /\ \A k \in 1..Len(trades') :
                trades'[k].timestamp <= Head(trades).timestamp]_vars

\* Two records of one response have been mirrored in the same cycle, the
\* one with the larger timestamp first.
C23_Witness ==
    /\ pc = "loop"
    /\ cycle.size = 0
    /\ Len(mirrors) = 2
    /\ lastStep.did = "mirrored"
    /\ lastStep.timestamp = StartTime - 5
    /\ first = StartTime + 2

\* C24: at no moment are two mirrorTrade calls of the poller waiting for
\* createOrder or postOrder.
C24_OneMirrorInFlight ==
    Cardinality({i \in 1..Len(mirrors) : mirrors[i].at \in {"createOrder", "postOrder"}}) <= 1

\* C25: the ledger knows a record by its transaction hash and asset alone:
\* every examined record leaves that pair in the ledger, and a record whose
\* pair is in the ledger already is skipped, neither mirrored nor added,
\* whatever its other fields.
C25_KeyIsHashAndAsset ==
    [][(pc = "loop" /\ trades # <<>>) =>
          LET key == <<Head(trades).transactionHash, Head(trades).asset>>
          IN /\ Holds(seenTrades', key)
             /\ Holds(seenTrades, key) =>
                   /\ mirrors' = mirrors
                   /\ mirrorCalls' = mirrorCalls
                   /\ seenTrades' = seenTrades]_vars

\* In one cycle that began with an empty ledger, the record with the larger
\* timestamp was mirrored and a record with the same transaction hash and
\* asset and a smaller timestamp has just been skipped.
C25_Witness ==
    /\ pc = "loop"
    /\ cycle.size = 0
    /\ first = StartTime + 2
    /\ lastStep.did = "skipped"
    /\ lastStep.timestamp = StartTime - 5
    /\ Len(seenTrades) = 1
    /\ Len(mirrors) = 1
    /\ mirrorCalls[lastStep.id] = 1

\* C26: when the invocations of pollForTrades overlap, mirrorTrade is invoked
\* at most once for an id, and between any two steps an id that was mirrored
\* is in the ledger: the look-up and the insertion are one step.
C26_OnceAcrossOverlappingCycles ==
    \A id \in TradeIds :
        /\ mirrorCalls[id] <= 1
        /\ mirrorCalls[id] = 1 => Holds(seenTrades, id)

\* Of invocations that were in flight together, a later cycle has just
\* skipped a record that an earlier one mirrored, and has added nothing.
C26_Witness ==
    /\ pc = "loop"
    /\ fetching < MaxFetching - 1
    /\ cycle.size >= 1
    /\ cycle.size = Len(seenTrades)
    /\ lastStep.did = "skipped"
    /\ mirrorCalls[lastStep.id] = 1

\* C27: an id is in the ledger from the step that hands it to mirrorTrade,
\* and no step takes it out again or hands it to mirrorTrade a second time,
\* the steps in which its mirrorTrade call fails included; a mirrorTrade call
\* that comes to its end leaves the ledger as it was.
C27_FailedMirrorNotRetried ==
    [][/\ \A id \in TradeIds :
             (mirrorCalls[id] >= 1 \/ mirrorCalls'[id] >= 1) =>
                 /\ Holds(seenTrades', id)
                 /\ mirrorCalls'[id] <= 1
       /\ (\E i \in 1..Len(mirrors) :
             mirrors[i].at # "returned" /\ mirrors'[i].at = "returned") =>
                 seenTrades' = seenTrades]_vars

\* The only mirrorTrade call so far failed at postOrder, and a later cycle
\* has just skipped the record of that call.
C27_Witness ==
    /\ pc = "loop"
    /\ Len(mirrors) = 1
    /\ mirrors[1].posted
    /\ mirrors[1].reported = "error"
    /\ mirrors[1].result = "null"
    /\ cycle.size = Len(seenTrades)
    /\ lastStep.did = "skipped"
    /\ mirrorCalls[lastStep.id] = 1

\* C28: the watermark never goes back and mirrorTrade is invoked only for a
\* record whose timestamp is at least lastTimestamp - 5 at that moment, so a
\* record that was suppressed as stale is never mirrored afterwards, also
\* when its id was evicted from the ledger and the record is returned again.
C28_StaleNeverMirrored ==
    [][/\ lastTimestamp' >= lastTimestamp
       /\ (pc = "loop" /\ Len(mirrors') > Len(mirrors)) =>
             Head(trades).timestamp >= lastTimestamp - 5
       /\ \A r \in EvictedRecords :
             r.timestamp < StartTime - 5 =>
                 mirrorCalls'[<<r.transactionHash, r.asset>>] = 0]_vars

\* The compaction took the id of the stale record out of the ledger; the
\* record was returned again and has just been suppressed as stale again.
C28_Witness ==
    /\ compactedAt > 0
    /\ lastStep.did = "stale"
    /\ lastStep.id = <<1, "123">>
    /\ lastStep.timestamp = StartTime - 6
    /\ mirrorCalls[<<1, "123">>] = 0
    /\ Len(mirrors) >= 1
====
